---- MODULE Spec2Model ----
(***************************************************************************)
(* Path resolution of concode (src/concode.go): fillPaths sweeps the file  *)
(* registry and fillPathForFile derives each file's PathFields from the    *)
(* import literals of the files that import it, or from its own imports.   *)
(*                                                                         *)
(* An import literal is kept as the list of its "/"-separated fields, the  *)
(* value strings.Split(imp, "/") has in the code; the last field is the    *)
(* name of the imported file.  Go's map iteration order is unspecified:    *)
(* every range over the registry is modelled as an arbitrary order.        *)
(***************************************************************************)
EXTENDS Integers, Sequences, FiniteSets, TLC

(***************************************************************************)
(* Bounds of the checked registries.                                       *)
(***************************************************************************)
MaxFiles == 3
MaxImports == 2
MaxEdges == 3
MaxParents == 2
MaxDirs == 1

(***************************************************************************)
(* Program constants and the names the registries are built from.          *)
(***************************************************************************)
rootDirName == "<ROOT>"
dummy == "dummy"

FileNames == <<"A.sol", "B.sol", "C.sol", "D.sol">>
DirName == "lib"

\* strings.HasSuffix(s, ".sol") on the field values of the checked registries
HasSuffixSol(s) == s \in {FileNames[k] : k \in 1..Len(FileNames)}

VARIABLES
    files,        \* the registry's keys
    Imports,      \* Imports[f]: the literals of f, each split at "/"
    dependents,   \* dependents[f]: the files importing f, one entry per import
    PathFields,   \* PathFields[f]
    pc,           \* build | sweep | call | returned (nil) | panic, then
                  \* write | writeError | exit
    todo,         \* files the current sweep has not visited yet
    done, totalDone,
    callstack,    \* names marked true in the map of the running top-level call
    stack,        \* frames of fillPathForFile, innermost last
    toWrite,      \* writeAllFiles: files its loop has not reached yet
    filesWritten, \* writeAllFiles: filesWritten
    run,          \* first | fresh | again: which call of fillPaths this is
    firstPaths    \* the paths the first call of fillPaths returned with

vars == <<files, Imports, dependents, PathFields, pc, todo, done, totalDone,
          callstack, stack, toWrite, filesWritten, run, firstPaths>>

\* what fillPaths and fillPathForFile never touch
others == <<toWrite, filesWritten, run, firstPaths>>

Min(a, b) == IF a < b THEN a ELSE b
Max(a, b) == IF a > b THEN a ELSE b
Last(s) == s[Len(s)]
Front(s) == SubSeq(s, 1, Len(s) - 1)
Repeat(x, n) == [k \in 1..n |-> x]

(***************************************************************************)
(* fillDependenciesAndImports: the dependency of an import is the last     *)
(* field of its literal.                                                   *)
(***************************************************************************)
Dependencies(f) == [k \in 1..Len(Imports[f]) |-> Last(Imports[f][k])]

(***************************************************************************)
(* The registries checked: the first n names of FileNames, each with at    *)
(* most MaxImports imports and MaxEdges imports in all.  A literal is up   *)
(* to MaxParents "..", or ".", or nothing, then up to MaxDirs directories, *)
(* then the name of another file, which may be absent from the registry.   *)
(* Files are listed by non-increasing number of imports: the order of the  *)
(* registry is arbitrary in the code, so no registry is lost up to the     *)
(* names of its files.                                                     *)
(***************************************************************************)
Prefixes == {<<>>, <<".">>} \cup {Repeat("..", k) : k \in 1..MaxParents}
Dirs == {Repeat(DirName, k) : k \in 0..MaxDirs}
Targets(i) == {FileNames[k] : k \in 1..MaxFiles} \ {FileNames[i]}
Literals(i) == {p \o d \o <<t>> : p \in Prefixes, d \in Dirs, t \in Targets(i)}
ListsUpTo(S, k) == UNION {[1..m -> S] : m \in 0..k}

RECURSIVE RegistriesFrom(_, _, _, _)
RegistriesFrom(i, n, cap, budget) ==
    IF i > n THEN {<<>>}
    ELSE UNION {{<<l>> \o rest : rest \in RegistriesFrom(i + 1, n, Len(l), budget - Len(l))} :
                l \in ListsUpTo(Literals(i), Min(cap, budget))}

Registries == UNION {RegistriesFrom(1, n, MaxImports, MaxEdges) : n \in 2..MaxFiles}

Index(name) == CHOOSE k \in 1..Len(FileNames) : FileNames[k] = name

(***************************************************************************)
(* Path predicates.                                                        *)
(***************************************************************************)
IsRooted(p) == Len(p) > 0 /\ p[1] = rootDirName

\* for i := 0; i < len(fields) && fields[i] == ".."; i++
RECURSIVE LeadingParents(_)
LeadingParents(fields) ==
    IF Len(fields) > 0 /\ fields[1] = ".." THEN 1 + LeadingParents(Tail(fields)) ELSE 0

\* for _, f := range importFields { if f == ".." { parentsCount++ } }
CountParents(fields) == Cardinality({k \in 1..Len(fields) : fields[k] = ".."})


(***************************************************************************)
(* countParentDirsFromImports.  The callstack map is set on entry and      *)
(* cleared on return, so at every call it holds exactly the files whose    *)
(* calls are open.  NilCount is the nil result, PanicCount a panic.        *)
(***************************************************************************)
NilCount == 0 - 1
PanicCount == 0 - 2

RECURSIVE countParentDirsFromImports(_, _)
RECURSIVE countParentDirsLoop(_, _, _, _)

countParentDirsFromImports(file, cs) ==
    IF file \in cs THEN NilCount
    ELSE countParentDirsLoop(file, 1, cs \cup {file}, 0)

countParentDirsLoop(file, k, cs, parentDirs) ==
    IF k > Len(Imports[file]) THEN parentDirs
    ELSE LET importFields == Imports[file][k]
             parentsCount ==
                 IF importFields[1] = ".." THEN CountParents(importFields)
                 ELSE IF importFields[1] = "."
                      THEN IF Len(importFields) < 2 THEN PanicCount
                           ELSE IF HasSuffixSol(importFields[2])
                                THEN IF importFields[2] \notin files THEN PanicCount
                                     ELSE LET c == countParentDirsFromImports(importFields[2], cs)
                                          IN  IF c = NilCount THEN 0 ELSE c
                                ELSE 0
                      ELSE 0
         IN  IF parentsCount = PanicCount THEN PanicCount
             ELSE countParentDirsLoop(file, k + 1, cs, Max(parentsCount, parentDirs))

(***************************************************************************)
(* fillPathForFile, lines 217-257: the path a dependent proposes for the   *)
(* file it imports.  NoCandidate stands for the "continue" of line 247; a  *)
(* literal without "/" leaves no directory field and indexing it panics.   *)
(***************************************************************************)
NoCandidate == <<>>

\* the last i with dependentFile.Dependencies[i] == file.Name.  dependents is
\* built from Dependencies, so one exists and the error of lines 228-233 is
\* never returned.
ImportIndex(dependentFile, file) ==
    LET hits == {k \in 1..Len(Imports[dependentFile]) : Dependencies(dependentFile)[k] = file}
    IN  CHOOSE k \in hits : \A j \in hits : j <= k

ImportPathFields(dependentFile, file) ==
    Front(Imports[dependentFile][ImportIndex(dependentFile, file)])

CandidatePanics(dependentFile, file) ==
    Len(ImportPathFields(dependentFile, file)) = 0

\* NewPathFields keeping the "." of the literal in the path
NewPathFields_KeepsDot(dependentFile, file) ==
    LET importPathFields == ImportPathFields(dependentFile, file)
        depPath == PathFields[dependentFile]
        parentsCount == LeadingParents(importPathFields)
    IN  IF importPathFields[1] = ".."
        THEN IF parentsCount >= Len(depPath) THEN NoCandidate
             ELSE SubSeq(depPath, 1, Len(depPath) - parentsCount)
                  \o SubSeq(importPathFields, parentsCount + 1, Len(importPathFields))
        ELSE IF importPathFields[1] = "."
        THEN depPath \o importPathFields
        ELSE <<rootDirName>> \o importPathFields

\* NewPathFields climbing as many directories as the dependent's path has fields
NewPathFields_ClimbsToTop(dependentFile, file) ==
    LET importPathFields == ImportPathFields(dependentFile, file)
        depPath == PathFields[dependentFile]
        parentsCount == LeadingParents(importPathFields)
    IN  IF importPathFields[1] = ".."
        THEN IF parentsCount > Len(depPath) THEN NoCandidate
             ELSE SubSeq(depPath, 1, Len(depPath) - parentsCount)
                  \o SubSeq(importPathFields, parentsCount + 1, Len(importPathFields))
        ELSE IF importPathFields[1] = "."
        THEN depPath \o Tail(importPathFields)
        ELSE <<rootDirName>> \o importPathFields

NewPathFields(dependentFile, file) ==
    LET importPathFields == ImportPathFields(dependentFile, file)
        depPath == PathFields[dependentFile]
        parentsCount == LeadingParents(importPathFields)
    IN  IF importPathFields[1] = ".."
        THEN IF parentsCount >= Len(depPath) THEN NoCandidate
             ELSE SubSeq(depPath, 1, Len(depPath) - parentsCount)
                  \o SubSeq(importPathFields, parentsCount + 1, Len(importPathFields))
        ELSE IF importPathFields[1] = "."
        THEN depPath \o Tail(importPathFields)
        ELSE <<rootDirName>> \o importPathFields

\* always keep the longer path
KeepsNewPath(newPathFields, oldPathFields) == Len(newPathFields) >= Len(oldPathFields)

(***************************************************************************)
(* Frames of fillPathForFile.  A frame is at "imports" or "dependents"     *)
(* (about to run iteration i of that loop), at "impCopy" / "impDummy"      *)
(* (the call of line 171 returned; lines 176-178, then 180-188 are next)   *)
(* or at "depRet" (the call of line 208 returned).                         *)
(***************************************************************************)
Top == stack[Len(stack)]

SetTop(pcv, iv) == [stack EXCEPT ![Len(stack)] = [file |-> Top.file, pc |-> pcv, i |-> iv]]

\* ReturnsAtOnce without the test of lines 157-159
ReturnsAtOnce_NoRootedCheck(f, cs) == f \in cs

\* lines 150-159: a call returns at once for an in-flight or a rooted file
ReturnsAtOnce(f, cs) == f \in cs \/ IsRooted(PathFields[f])

NewFrame(f) ==
    [file |-> f, pc |-> IF Len(dependents[f]) = 0 THEN "imports" ELSE "dependents", i |-> 1]

\* CountsAsDone counting the rooted paths
CountsAsDone_Rooted(p) == Len(p) > 0 /\ p[1] = rootDirName

\* fillPaths, lines 134-136
CountsAsDone(p) == Len(p) > 0 /\ p[1] # rootDirName

\* the innermost call returns with the registry's paths np
Return(np) ==
    /\ PathFields' = np
    /\ callstack' = callstack \ {Top.file}
    /\ stack' = Front(stack)
    /\ IF Len(stack) = 1
       THEN /\ pc' = "sweep"
            /\ todo' = todo \ {Top.file}
            /\ done' = IF CountsAsDone(np[Top.file]) THEN done + 1 ELSE done
       ELSE UNCHANGED <<pc, todo, done>>
    /\ UNCHANGED <<files, Imports, dependents, totalDone>>

Panic ==
    /\ pc' = "panic"
    /\ UNCHANGED <<files, Imports, dependents, PathFields, todo, done, totalDone,
                   callstack, stack>>

(***************************************************************************)
(* Initial state: a registry as getFiles leaves it, no path filled.        *)
(***************************************************************************)
Init ==
    /\ \E r \in Registries :
          /\ files = {FileNames[k] : k \in 1..Len(r)}
          /\ Imports = [f \in {FileNames[k] : k \in 1..Len(r)} |-> r[Index(f)]]
    /\ PathFields = [f \in files |-> <<>>]
    /\ dependents = [f \in files |-> <<>>]
    /\ pc = "build"
    /\ todo = {}
    /\ done = 0
    /\ totalDone = 0
    /\ callstack = {}
    /\ stack = <<>>
    /\ toWrite = {}
    /\ filesWritten = 0
    /\ run = "first"
    /\ firstPaths = <<>>

Orders(S) == {o \in [1..Cardinality(S) -> S] : \A a, b \in 1..Cardinality(S) : o[a] = o[b] => a = b}

RECURSIVE DependentsIn(_, _)
DependentsIn(order, t) ==
    IF Len(order) = 0 THEN <<>>
    ELSE LET file == order[1]
             n == Cardinality({k \in 1..Len(Imports[file]) : Dependencies(file)[k] = t})
         IN  Repeat(file, n) \o DependentsIn(Tail(order), t)

\* fillPaths, lines 118-126
BuildDependents ==
    /\ UNCHANGED others
    /\ pc = "build"
    /\ \E order \in Orders(files) :
          dependents' = [t \in files |-> DependentsIn(order, t)]
    /\ pc' = "sweep"
    /\ todo' = files
    /\ done' = 0
    /\ totalDone' = 0
    /\ UNCHANGED <<files, Imports, PathFields, callstack, stack>>

\* fillPaths, lines 129-137: the sweep visits a file it has not visited yet
SweepNext ==
    /\ UNCHANGED others
    /\ pc = "sweep"
    /\ \E file \in todo :
          IF ReturnsAtOnce(file, {})
          THEN /\ todo' = todo \ {file}
               /\ done' = IF CountsAsDone(PathFields[file]) THEN done + 1 ELSE done
               /\ UNCHANGED <<pc, callstack, stack>>
          ELSE /\ stack' = <<NewFrame(file)>>
               /\ callstack' = {file}
               /\ pc' = "call"
               /\ UNCHANGED <<todo, done>>
    /\ UNCHANGED <<files, Imports, dependents, PathFields, totalDone>>

\* fillPaths, lines 139-146
SweepEnd ==
    /\ UNCHANGED others
    /\ pc = "sweep"
    /\ todo = {}
    /\ IF done = totalDone
       THEN pc' = "returned" /\ UNCHANGED <<todo, done, totalDone>>
       ELSE pc' = "sweep" /\ totalDone' = done /\ done' = 0 /\ todo' = files
    /\ UNCHANGED <<files, Imports, dependents, PathFields, callstack, stack>>

\* the callee f of the innermost frame is entered; the frame resumes at pcv
Call(f, pcv) ==
    /\ IF ReturnsAtOnce(f, callstack)
       THEN stack' = SetTop(pcv, Top.i) /\ UNCHANGED callstack
       ELSE stack' = Append(SetTop(pcv, Top.i), NewFrame(f)) /\ callstack' = callstack \cup {f}
    /\ UNCHANGED <<files, Imports, dependents, PathFields, pc, todo, done, totalDone>>

\* lines 165-174
ImportCall ==
    /\ UNCHANGED others
    /\ pc = "call"
    /\ Top.pc = "imports"
    /\ Top.i <= Len(Imports[Top.file])
    /\ LET f == Last(Imports[Top.file][Top.i])
       IN  IF f \notin files THEN Panic ELSE Call(f, "impCopy")

\* lines 176-178
ImportCopy ==
    /\ UNCHANGED others
    /\ pc = "call"
    /\ Top.pc = "impCopy"
    /\ LET f == Last(Imports[Top.file][Top.i])
       IN  PathFields' = IF Len(PathFields[f]) > 0
                         THEN [PathFields EXCEPT ![Top.file] = PathFields[f]]
                         ELSE PathFields
    /\ stack' = SetTop("impDummy", Top.i)
    /\ UNCHANGED <<files, Imports, dependents, pc, todo, done, totalDone, callstack>>

\* lines 180-188
ImportDummies ==
    /\ UNCHANGED others
    /\ pc = "call"
    /\ Top.pc = "impDummy"
    /\ LET impFields == Imports[Top.file][Top.i]
           np == [PathFields EXCEPT ![Top.file] = @ \o Repeat(dummy, LeadingParents(impFields))]
       IN  IF Len(np[Top.file]) > 0
           THEN Return(np)
           ELSE /\ stack' = SetTop("imports", Top.i + 1)
                /\ PathFields' = np
                /\ UNCHANGED <<files, Imports, dependents, pc, todo, done, totalDone, callstack>>

\* lines 191-204
Estimate ==
    /\ UNCHANGED others
    /\ pc = "call"
    /\ Top.pc = "imports"
    /\ Top.i > Len(Imports[Top.file])
    /\ LET parentsCount == countParentDirsFromImports(Top.file, {})
           count == IF parentsCount = NilCount THEN 0 ELSE parentsCount
       IN  IF parentsCount = PanicCount THEN Panic
           ELSE Return([PathFields EXCEPT
                          ![Top.file] = Append(@, rootDirName) \o Repeat(dummy, count)])

\* lines 207-211
DependentCall ==
    /\ UNCHANGED others
    /\ pc = "call"
    /\ Top.pc = "dependents"
    /\ Top.i <= Len(dependents[Top.file])
    /\ Call(dependents[Top.file][Top.i], "depRet")

\* lines 213-262
DependentReturn ==
    /\ UNCHANGED others
    /\ pc = "call"
    /\ Top.pc = "depRet"
    /\ LET dependentFile == dependents[Top.file][Top.i]
       IN  IF Len(PathFields[dependentFile]) = 0
           THEN /\ stack' = SetTop("dependents", Top.i + 1)
                /\ UNCHANGED <<files, Imports, dependents, PathFields, pc, todo, done,
                               totalDone, callstack>>
           ELSE IF CandidatePanics(dependentFile, Top.file) THEN Panic
           ELSE LET newPathFields == NewPathFields(dependentFile, Top.file)
                IN  /\ PathFields' =
                          IF newPathFields # NoCandidate
                             /\ KeepsNewPath(newPathFields, PathFields[Top.file])
                          THEN [PathFields EXCEPT ![Top.file] = newPathFields]
                          ELSE PathFields
                    /\ stack' = SetTop("dependents", Top.i + 1)
                    /\ UNCHANGED <<files, Imports, dependents, pc, todo, done, totalDone,
                                   callstack>>

\* line 265
DependentsDone ==
    /\ UNCHANGED others
    /\ pc = "call"
    /\ Top.pc = "dependents"
    /\ Top.i > Len(dependents[Top.file])
    /\ Return(PathFields)

(***************************************************************************)
(* main, lines 40-47 of its file, and writeAllFiles (src/fs.go).  The      *)
(* range over the registry is in arbitrary order; MkdirAll and WriteFile   *)
(* may fail.  addBasePathToImports rewrites RawContent only.               *)
(***************************************************************************)
fsVars == <<files, Imports, dependents, PathFields, todo, done, totalDone,
            callstack, stack, run, firstPaths>>

\* main, line 40; fs.go, line 11
WriteAllFiles ==
    /\ pc = "returned"
    /\ pc' = "write"
    /\ toWrite' = files
    /\ filesWritten' = 0
    /\ UNCHANGED fsVars

\* fs.go, lines 14-19
IsIncomplete(p) == Len(p) = 0 \/ p[1] # rootDirName

\* fs.go, lines 13-32: one iteration of the loop
WriteFile ==
    /\ pc = "write"
    /\ \E f \in toWrite :
          IF IsIncomplete(PathFields[f])
          THEN pc' = "writeError" /\ UNCHANGED <<toWrite, filesWritten>>
          ELSE pc' = "write" /\ toWrite' = toWrite \ {f} /\ filesWritten' = filesWritten + 1
    /\ UNCHANGED fsVars

\* fs.go, lines 22-29: os.MkdirAll or os.WriteFile returns an error
WriteFileFails ==
    /\ pc = "write"
    /\ \E f \in toWrite : ~IsIncomplete(PathFields[f])
    /\ pc' = "writeError"
    /\ UNCHANGED <<toWrite, filesWritten>>
    /\ UNCHANGED fsVars

\* fs.go, line 34; main, lines 41-47
WriteAllFilesDone ==
    /\ pc = "write"
    /\ toWrite = {}
    /\ pc' = IF filesWritten = Cardinality(files) THEN "exit" ELSE "panic"
    /\ UNCHANGED <<toWrite, filesWritten>>
    /\ UNCHANGED fsVars

Next ==
    \/ WriteAllFiles
    \/ WriteFile
    \/ WriteFileFails
    \/ WriteAllFilesDone
    \/ BuildDependents
    \/ SweepNext
    \/ SweepEnd
    \/ ImportCall
    \/ ImportCopy
    \/ ImportDummies
    \/ Estimate
    \/ DependentCall
    \/ DependentReturn
    \/ DependentsDone

Spec == Init /\ [][Next]_vars

TypeOK ==
    /\ pc \in {"build", "sweep", "call", "returned", "panic", "write", "writeError", "exit"}
    /\ callstack \subseteq files
    /\ Len(stack) <= Cardinality(files)

(***************************************************************************)
(* A second call of fillPaths on the same registry, made once the first    *)
(* has returned: RunFresh on the registry as getFiles left it (the program *)
(* run again on the same input), RunAgain on the registry as the first     *)
(* call left it.  Both record the paths of the first call.  The second     *)
(* calls are checked on the registries of two files.                       *)
(***************************************************************************)
InitFair == Init /\ Cardinality(files) = 2

rerunVars == <<files, Imports, callstack, stack, toWrite, filesWritten>>

RunFresh ==
    /\ pc = "returned"
    /\ run = "first"
    /\ run' = "fresh"
    /\ firstPaths' = PathFields
    /\ PathFields' = [f \in files |-> <<>>]
    /\ dependents' = [f \in files |-> <<>>]
    /\ pc' = "build"
    /\ todo' = {}
    /\ done' = 0
    /\ totalDone' = 0
    /\ UNCHANGED rerunVars

RunAgain ==
    /\ pc = "returned"
    /\ run = "first"
    /\ run' = "again"
    /\ firstPaths' = PathFields
    /\ dependents' = [f \in files |-> <<>>]
    /\ pc' = "build"
    /\ todo' = {}
    /\ done' = 0
    /\ totalDone' = 0
    /\ UNCHANGED PathFields
    /\ UNCHANGED rerunVars

NextRerun ==
    \/ Next
    \/ RunFresh
    \/ RunAgain

RerunSpec == InitFair /\ [][NextRerun]_vars

(***************************************************************************)
(* Termination needs every enabled step to be taken eventually: the        *)
(* program is sequential and runs until fillPaths returns or panics.       *)
(* The temporal properties are checked on the registries of two files too. *)
(***************************************************************************)
FairSpec == InitFair /\ [][Next]_vars /\ WF_vars(Next)

(***************************************************************************)
(* Vocabulary of the properties.                                           *)
(***************************************************************************)
Returned == pc = "returned"

AllTargetsExist ==
    \A f \in files : \A k \in 1..Len(Imports[f]) : Dependencies(f)[k] \in files

HasNoDependents(f) ==
    \A g \in files : \A k \in 1..Len(Imports[g]) : Dependencies(g)[k] # f

\* the import edges of the registry: file d imports t by its k-th literal
Edges == {e \in files \X (1..MaxImports) \X files :
            e[2] <= Len(Imports[e[1]]) /\ Dependencies(e[1])[e[2]] = e[3]}

\* the navigation rule of an import literal, applied to the importer's path
Navigate(p, literal) ==
    LET dirs == Front(literal)
        k == LeadingParents(dirs)
    IN  IF k > 0 THEN SubSeq(p, 1, Len(p) - k) \o SubSeq(dirs, k + 1, Len(dirs))
        ELSE IF Len(dirs) > 0 /\ dirs[1] = "." THEN p \o Tail(dirs)
        ELSE <<rootDirName>> \o dirs

(***************************************************************************)
(* C1. Totality: when fillPaths returns on a registry whose import targets *)
(* all exist, every file has a path that starts with the ROOT sentinel.    *)
(***************************************************************************)
C1_Totality ==
    (AllTargetsExist /\ Returned) => \A f \in files : IsRooted(PathFields[f])

(***************************************************************************)
(* C2. Cycle safety: in a registry of exactly two files that import each   *)
(* other by "./" literals, fillPaths returns with both paths equal to      *)
(* [ROOT].                                                                 *)
(***************************************************************************)
IsTwoCycle(a, b) ==
    /\ a # b
    /\ files = {a, b}
    /\ Imports[a] = <<(<<".", b>>)>>
    /\ Imports[b] = <<(<<".", a>>)>>

C2_CycleSafety ==
    \A a, b \in files :
        (IsTwoCycle(a, b) /\ Returned)
            => PathFields[a] = <<rootDirName>> /\ PathFields[b] = <<rootDirName>>

(***************************************************************************)
(* C3. Edge consistency: when fillPaths has returned, for every import     *)
(* edge whose importer and target are both rooted, the navigation rule     *)
(* applied to the importer's path gives the target's path.                 *)
(***************************************************************************)
C3_EdgeConsistency ==
    Returned =>
        \A e \in Edges :
            (IsRooted(PathFields[e[1]]) /\ IsRooted(PathFields[e[3]]))
                => Navigate(PathFields[e[1]], Imports[e[1]][e[2]]) = PathFields[e[3]]

(***************************************************************************)
(* C4. Depth fallback: a file x without dependents whose only import is    *)
(* k times "..", then lib, then y (k = 1 or 2), where y has no imports and *)
(* no other importer, ends at [ROOT] followed by k placeholders.           *)
(***************************************************************************)
IsDepthFallback(x, y, k) ==
    /\ x # y
    /\ HasNoDependents(x)
    /\ Imports[x] = <<Repeat("..", k) \o <<DirName, y>>>>
    /\ Imports[y] = <<>>
    /\ \A e \in Edges : e[3] = y => e[1] = x

C4_DepthFallback ==
    \A x, y \in files : \A k \in {1, 2} :
        (IsDepthFallback(x, y, k) /\ Returned)
            => PathFields[x] = <<rootDirName>> \o Repeat(dummy, k)

(***************************************************************************)
(* C5. Longest-path preference: when fillPaths has returned, the path of a *)
(* file with several dependents is one of the candidates the navigation    *)
(* rule gives from its dependents' final paths, and none of them is        *)
(* longer.  A dependent without a path, or a literal that climbs above the *)
(* dependent's path, gives no candidate.                                   *)
(***************************************************************************)
GivesCandidate(e) ==
    /\ Len(PathFields[e[1]]) > 0
    /\ LeadingParents(Imports[e[1]][e[2]]) < Len(PathFields[e[1]])

Candidates(t) ==
    {Navigate(PathFields[e[1]], Imports[e[1]][e[2]]) :
        e \in {x \in Edges : x[3] = t /\ GivesCandidate(x)}}

HasSeveralDependents(t) ==
    \E d1, d2 \in Edges : d1[3] = t /\ d2[3] = t /\ d1[1] # d2[1]

C5_LongestPath ==
    Returned =>
        \A t \in files :
            (HasSeveralDependents(t) /\ Candidates(t) # {})
                => /\ PathFields[t] \in Candidates(t)
                   /\ \A c \in Candidates(t) : Len(c) <= Len(PathFields[t])

(***************************************************************************)
(* C6. Root-relative import: when fillPaths has returned, a file that some *)
(* file imports by the literal lib/<name> is at [ROOT, lib].               *)
(***************************************************************************)
C6_RootRelative ==
    Returned =>
        \A e \in Edges :
            Imports[e[1]][e[2]] = <<DirName, e[3]>>
                => PathFields[e[3]] = <<rootDirName, DirName>>

(***************************************************************************)
(* C7. Termination: on a registry whose import targets all exist,          *)
(* fillPaths eventually returns.                                           *)
(***************************************************************************)
C7_Termination == AllTargetsExist => <>Returned

\* Every run ends: fillPaths returns or the program panics.
ReturnsOrPanics == <>(pc \in {"returned", "panic"})

(***************************************************************************)
(* C8. Rooted is final, as claimed: no step changes a path that starts     *)
(* with ROOT.                                                              *)
(***************************************************************************)
C8_RootedIsFinal ==
    [][\A f \in files : IsRooted(PathFields[f]) => PathFields'[f] = PathFields[f]]_vars

(***************************************************************************)
(* C8, amended. Once a call of fillPathForFile on a file has returned and  *)
(* left its path starting with ROOT, the file is never entered again and   *)
(* no step changes its path, so the number of such files never decreases.  *)
(* (A file is in callstack exactly while a call on it is open; between the *)
(* calls of a sweep callstack is empty.)                                   *)
(***************************************************************************)
RootedAtRest == {f \in files : IsRooted(PathFields[f]) /\ f \notin callstack}

C8_RootedAtRestIsFinal ==
    [][/\ \A f \in RootedAtRest : f \notin callstack' /\ PathFields'[f] = PathFields[f]
       /\ Cardinality(RootedAtRest') >= Cardinality(RootedAtRest)]_vars

\* in a later sweep, the call on a rooted dependent has returned at once
C8_Witness ==
    /\ pc = "call"
    /\ totalDone > 0
    /\ Top.pc = "depRet"
    /\ IsRooted(PathFields[dependents[Top.file][Top.i]])
    /\ dependents[Top.file][Top.i] \notin callstack

(***************************************************************************)
(* C9. Path length is monotonic: no step of fillPaths makes the path of a  *)
(* file shorter.                                                           *)
(***************************************************************************)
C9_LengthMonotonic ==
    [][\A f \in files : Len(PathFields'[f]) >= Len(PathFields[f])]_vars

(***************************************************************************)
(* C10. Unresolved files are fatal: fillPaths does not return nil while a  *)
(* file has an empty path or a path that does not start with ROOT.         *)
(***************************************************************************)
C10_UnresolvedIsFatal ==
    ~(Returned /\ \E f \in files : ~IsRooted(PathFields[f]))

(***************************************************************************)
(* C11. No output on failure: if a file is not rooted when resolution has  *)
(* ended, writeAllFiles writes no file.                                    *)
(***************************************************************************)
Writing == pc \in {"write", "writeError", "exit"}

C11_NoOutputOnFailure ==
    (Writing /\ \E f \in files : ~IsRooted(PathFields[f])) => filesWritten = 0

(***************************************************************************)
(* C12. Unknown reference: on a registry where some import names a file    *)
(* that is not a key of the registry, fillPaths does not return normally.  *)
(***************************************************************************)
C12_UnknownReference == ~AllTargetsExist => ~Returned

(***************************************************************************)
(* C13. Determinism: two runs of fillPaths on the same registry, whatever  *)
(* their iteration orders, return with the same paths.                     *)
(***************************************************************************)
C13_Determinism ==
    (run = "fresh" /\ Returned) => PathFields = firstPaths

(***************************************************************************)
(* C14. Idempotence: fillPaths called on a registry in which every file is *)
(* already rooted enters no call, counts nothing, so that its first sweep  *)
(* is its last, does not fail, and leaves every path as it was.            *)
(***************************************************************************)
AlreadyRooted == run = "again" /\ \A f \in files : IsRooted(firstPaths[f])

C14_Idempotence ==
    AlreadyRooted =>
        /\ PathFields = firstPaths
        /\ pc \notin {"call", "panic"}
        /\ done = 0
        /\ totalDone = 0

C14_Witness ==
    /\ AlreadyRooted
    /\ pc = "returned"
    /\ \E f \in files : Len(PathFields[f]) > 1

(***************************************************************************)
(* C15. End-to-end single relative edge: in a registry, every import of    *)
(* which names one of its files, where file a has no dependents and        *)
(* imports only b, by "./" followed by n directories, b is imported by a   *)
(* alone and every other file has neither imports nor dependents (so that  *)
(* the import of b by a is the only one), fillPaths returns with a at      *)
(* [ROOT], b at [ROOT] followed by the n directories and every other file  *)
(* at [ROOT], in every sweep order.                                        *)
(***************************************************************************)
IsSingleEdge(a, b, n) ==
    /\ a # b
    /\ Imports[a] = <<(<<".">> \o Repeat(DirName, n) \o <<b>>)>>
    /\ HasNoDependents(a)
    /\ AllTargetsExist
    /\ \A g \in files \ {a} : \A k \in 1..Len(Imports[g]) : Dependencies(g)[k] # b
    /\ \A f \in files \ {a, b} : Imports[f] = <<>> /\ HasNoDependents(f)

C15_SingleRelativeEdge ==
    \A a, b \in files : \A n \in 0..MaxDirs :
        (IsSingleEdge(a, b, n) /\ Returned)
            => /\ PathFields[a] = <<rootDirName>>
               /\ PathFields[b] = <<rootDirName>> \o Repeat(DirName, n)
               /\ \A f \in files \ {a, b} : PathFields[f] = <<rootDirName>>

C15_Witness ==
    /\ Returned
    /\ Cardinality(files) = 3
    /\ \E a, b \in files : \E n \in 1..MaxDirs :
          IsSingleEdge(a, b, n) /\ Len(PathFields[b]) = n + 1

(***************************************************************************)
(* C16. Literal without directory portion: when the dependent at hand has  *)
(* a non-empty path and imports the file being resolved by a literal that  *)
(* is the bare name of the file, the step does not fail and its candidate  *)
(* is [ROOT]: it becomes the path of the file unless that is longer.       *)
(***************************************************************************)
AtBareLiteral ==
    /\ pc = "call"
    /\ Top.pc = "depRet"
    /\ Len(PathFields[dependents[Top.file][Top.i]]) > 0
    /\ Len(ImportPathFields(dependents[Top.file][Top.i], Top.file)) = 0

C16_BareLiteral ==
    [][AtBareLiteral =>
          /\ pc' # "panic"
          /\ Len(PathFields[Top.file]) <= 1 => PathFields'[Top.file] = <<rootDirName>>]_vars

(***************************************************************************)
(* C17. Fixpoint at exit: once fillPaths has returned, one more sweep over *)
(* the files, in any order, ends with every path as it was (and so roots   *)
(* no file).  The sweep is the first one of a second call on the registry  *)
(* as the first call left it.                                              *)
(***************************************************************************)
AfterOneMoreSweep == run = "again" /\ totalDone = 0 /\ pc = "sweep" /\ todo = {}

C17_FixpointAtExit == AfterOneMoreSweep => PathFields = firstPaths

(***************************************************************************)
(* C18. Depth estimator: a file without dependents, none of whose imports  *)
(* yields a path, is placed at [ROOT] followed by d placeholders, d being  *)
(* the greatest contribution of its imports: the number of leading ".."    *)
(* of a ".." literal, the estimate of the target for a "." literal whose   *)
(* target is in the registry (nothing when the target is in flight), 0     *)
(* for any other literal; d = 0 without imports.                           *)
(***************************************************************************)
RECURSIVE MaxOver(_, _, _)
MaxOver(Op(_), k, n) == IF k > n THEN 0 ELSE Max(Op(k), MaxOver(Op, k + 1, n))

RECURSIVE EstimatedDepth(_, _)
EstimatedDepth(f, inFlight) ==
    LET Contribution(k) ==
            LET literal == Imports[f][k]
                target == Last(literal)
            IN  IF literal[1] = ".." THEN LeadingParents(literal)
                ELSE IF literal[1] = "." /\ target \in files /\ target \notin inFlight \cup {f}
                     THEN EstimatedDepth(target, inFlight \cup {f})
                     ELSE 0
    IN  MaxOver(Contribution, 1, Len(Imports[f]))

AtEstimate ==
    /\ pc = "call"
    /\ Top.pc = "imports"
    /\ Top.i > Len(Imports[Top.file])

C18_DepthEstimator ==
    [][(AtEstimate /\ pc' # "panic") =>
          PathFields'[Top.file]
              = <<rootDirName>> \o Repeat(dummy, EstimatedDepth(Top.file, {}))]_vars

(***************************************************************************)
(* C19. First usable import wins: when a file without dependents has had   *)
(* the target of one of its imports resolved, a target with a path ends    *)
(* the visit, no later import being consulted, and a target without a path *)
(* contributes nothing to the path of the file.                            *)
(***************************************************************************)
AtImportResolved == pc = "call" /\ Top.pc = "impDummy"

C19_FirstUsableImport ==
    [][AtImportResolved =>
          IF Len(PathFields[Last(Imports[Top.file][Top.i])]) > 0
          THEN Len(stack') = Len(stack) - 1
          ELSE PathFields'[Top.file] = PathFields[Top.file]]_vars

(***************************************************************************)
(* C20. ROOT position: in every state the ROOT sentinel occurs in a path   *)
(* at its first position only; and when a rooted dependent imports the     *)
(* file being resolved by a ".." literal, the literal gives no candidate   *)
(* if it climbs at least as many directories as the dependent's path has   *)
(* fields, and a candidate that starts with ROOT otherwise.                *)
(***************************************************************************)
RootOnlyFirst(p) == \A k \in 2..Len(p) : p[k] # rootDirName

ClimbsFromRooted(d, f) ==
    /\ IsRooted(PathFields[d])
    /\ ~CandidatePanics(d, f)
    /\ ImportPathFields(d, f)[1] = ".."

C20_RootPosition ==
    /\ \A f \in files : RootOnlyFirst(PathFields[f])
    /\ (pc = "call" /\ Top.pc = "depRet"
           /\ ClimbsFromRooted(dependents[Top.file][Top.i], Top.file))
        => LET d == dependents[Top.file][Top.i]
           IN  IF LeadingParents(ImportPathFields(d, Top.file)) >= Len(PathFields[d])
               THEN NewPathFields(d, Top.file) = NoCandidate
               ELSE IsRooted(NewPathFields(d, Top.file))

\* the candidate of a ".." literal from a rooted dependent has become the path
C20_Witness ==
    /\ pc = "call"
    /\ Top.pc = "dependents"
    /\ Top.i > 1
    /\ ClimbsFromRooted(dependents[Top.file][Top.i - 1], Top.file)
    /\ PathFields[Top.file] = NewPathFields(dependents[Top.file][Top.i - 1], Top.file)
    /\ IsRooted(PathFields[Top.file])

====
